---- MODULE Spec2Model ----
(***************************************************************************)
(* Model of utils/shell.py: ShellUtil.parse_shell_command splits a command *)
(* specification into argument vectors, ShellUtil.subprocess_run hands     *)
(* each vector to subprocess.run in order.                                 *)
(*                                                                         *)
(* A Python string is a sequence of one-character strings.  A Python value *)
(* passed as `commands` is a record                                        *)
(*    [type, str, items]   type \in {"str", "int", "list", "tuple"}        *)
(* and an element of a list/tuple is a record                              *)
(*    [type, str, argv]    type \in {"str", "int", "list"}                 *)
(* (argv: the strings of an element that is itself a list of strings).     *)
(***************************************************************************)
EXTENDS Integers, Sequences, FiniteSets, TLC

VARIABLES
    commands,             \* subprocess_run's argument `commands`
    kwargs,               \* subprocess_run's **kwargs: a set of <<key, value>>
    pc,                   \* position of the call: start, loop, wait, done, raised
    commands_to_execute,  \* what parse_shell_command returned
    idx,                  \* position of the for loop of subprocess_run (1-based)
    calls,                \* the subprocess.run invocations of this call, in order
    raised,               \* the exception that reached the caller, or "none"
    returned              \* the value returned to the caller, or "none"

vars == <<commands, kwargs, pc, commands_to_execute, idx, calls, raised, returned>>

-----------------------------------------------------------------------------
(* Bounds of the checked inputs *)

\* characters of a command specification handed to parse_shell_command alone
MaxLen == 4
\* elements of a list/tuple handed to parse_shell_command alone
MaxItems == 2
\* characters of a command specification handed to subprocess_run
MaxRunLen == 3
\* elements of a list/tuple handed to subprocess_run
MaxRunItems == 3

Letters == {"a", "b"}
\* the ASCII whitespace str.strip() and str.split() remove
Whitespace == {" ", "\t", "\n", "\r", "\f"}
Chars == Letters \cup {" ", ";"}

-----------------------------------------------------------------------------
(* Python str methods, computed as CPython computes them *)

RECURSIVE lstrip(_)
lstrip(s) ==
    IF s # <<>> /\ Head(s) \in Whitespace THEN lstrip(Tail(s)) ELSE s

RECURSIVE rstrip(_)
rstrip(s) ==
    IF s # <<>> /\ s[Len(s)] \in Whitespace
    THEN rstrip(SubSeq(s, 1, Len(s) - 1))
    ELSE s

\* str.strip(): leading and trailing whitespace removed
strip(s) == rstrip(lstrip(s))

\* index of the first element of s in set S, Len(s) + 1 if there is none
FirstIn(s, S) ==
    LET hits == {i \in 1..Len(s) : s[i] \in S}
    IN  IF hits = {} THEN Len(s) + 1
        ELSE CHOOSE i \in hits : \A j \in hits : i <= j

\* str.split(sep): every occurrence of sep cuts, empty pieces are kept
RECURSIVE split_sep(_, _)
split_sep(s, sep) ==
    LET i == FirstIn(s, {sep})
    IN  IF i > Len(s) THEN <<s>>
        ELSE <<SubSeq(s, 1, i - 1)>> \o split_sep(SubSeq(s, i + 1, Len(s)), sep)

\* a split that cuts at every single space, as str.split(' ') does
split_on_each_space(s) == split_sep(s, " ")

\* str.split(): runs of whitespace cut, no empty piece is produced
RECURSIVE split_whitespace(_)
split_whitespace(s) ==
    LET t == lstrip(s)
        n == FirstIn(t, Whitespace)
    IN  IF t = <<>> THEN <<>>
        ELSE <<SubSeq(t, 1, n - 1)>> \o split_whitespace(SubSeq(t, n, Len(t)))

-----------------------------------------------------------------------------
(* ShellUtil *)

\* [command.split() for command in commands if len(command) > 0]
_get_commands(cmds) ==
    LET kept == SelectSeq(cmds, LAMBDA command : Len(command) > 0)
    IN  [k \in 1..Len(kept) |-> split_whitespace(kept[k])]

_get_commands_from_str(command_to_execute) ==
    _get_commands(split_sep(strip(command_to_execute), ";"))

\* what a call gives back: the exception it raised ("none": it returned value)
Returns(v) == [raised |-> "none", value |-> v]
Raises(e) == [raised |-> e, value |-> <<>>]

\* a loop that puts the commands of each element before those read so far
RECURSIVE parse_items_prepending(_, _, _)
parse_items_prepending(items, i, commands_to_run) ==
    IF i > Len(items) THEN Returns(commands_to_run)
    ELSE IF items[i].type # "str" THEN Raises("AttributeError")
    ELSE parse_items_prepending(items, i + 1,
                     _get_commands_from_str(items[i].str) \o commands_to_run)

\* the for loop of parse_shell_command over a list/tuple, from element i on;
\* an element without a strip method (an int, a list) raises AttributeError
RECURSIVE parse_items(_, _, _)
parse_items(items, i, commands_to_run) ==
    IF i > Len(items) THEN Returns(commands_to_run)
    ELSE IF items[i].type # "str" THEN Raises("AttributeError")
    ELSE parse_items(items, i + 1,
                     commands_to_run \o _get_commands_from_str(items[i].str))

parse_shell_command(command_to_execute) ==
    IF command_to_execute.type = "str"
    THEN Returns(_get_commands_from_str(command_to_execute.str))
    ELSE IF command_to_execute.type \in {"list", "tuple"}
    THEN parse_items(command_to_execute.items, 1, <<>>)
    ELSE Raises("TypeError")

-----------------------------------------------------------------------------
(* The values a caller passes *)

Strings(n) == UNION {[1..k -> Chars] : k \in 0..n}

PyStr(s) == [type |-> "str", str |-> s, items |-> <<>>]
PyInt == [type |-> "int", str |-> <<>>, items |-> <<>>]
PySeq(t, items) == [type |-> t, str |-> <<>>, items |-> items]

ItemStr(s) == [type |-> "str", str |-> s, argv |-> <<>>]
ItemInt == [type |-> "int", str |-> <<>>, argv |-> <<>>]
ItemList(argv) == [type |-> "list", str |-> <<>>, argv |-> argv]

\* The size of an element: its characters, its tokens, 1 for a number.
\* the elements of size exactly n
ItemsOfSize(n) ==
    {ItemStr(s) : s \in [1..n -> Chars]}
    \cup (IF n = 1 THEN {ItemInt} ELSE {})
    \cup (IF n >= 1 THEN {ItemList(a) : a \in [1..n -> {<<c>> : c \in Letters}]}
          ELSE {})

\* `commands` is a list/tuple (t) that begins with `items` and goes on with
\* at most n more elements of total size at most total
RECURSIVE IsSeqFrom(_, _, _, _)
IsSeqFrom(t, items, n, total) ==
    \/ commands = PySeq(t, items)
    \/ /\ n > 0
       /\ \E k \in 0..total : \E item \in ItemsOfSize(k) :
             IsSeqFrom(t, items \o <<item>>, n - 1, total - k)

\* `commands` is a string of at most `total` characters, a number, or a
\* list/tuple of at most n elements of total size at most total
IsInput(n, total) ==
    \/ \E s \in Strings(total) : commands = PyStr(s)
    \/ commands = PyInt
    \/ \E t \in {"list", "tuple"} : IsSeqFrom(t, <<>>, n, total)

\* **kwargs of subprocess_run: none, check=True, cwd='/tmp'
KwargsChoices == {{}, {<<"check", "True">>}, {<<"cwd", "/tmp">>}}

-----------------------------------------------------------------------------
(* subprocess_run *)

Call(args, kw, status, error, returncode) ==
    [args |-> args, kwargs |-> kw, status |-> status, error |-> error,
     returncode |-> returncode]

\* commands_to_execute = ShellUtil.parse_shell_command(commands)
Parse ==
    /\ pc = "start"
    /\ LET r == parse_shell_command(commands) IN
        /\ commands_to_execute' = r.value
        /\ raised' = r.raised
        /\ pc' = IF r.raised = "none" THEN "loop" ELSE "raised"
    /\ UNCHANGED <<commands, kwargs, idx, calls, returned>>

\* a launch that does not block on the child (subprocess.Popen)
Launch_NoWait ==
    /\ pc = "loop"
    /\ idx <= Len(commands_to_execute)
    /\ calls' = Append(calls,
                       Call(commands_to_execute[idx], kwargs, "running", "none", -1))
    /\ idx' = idx + 1
    /\ UNCHANGED <<commands, kwargs, pc, commands_to_execute, raised, returned>>

\* a launch that forwards the options to the first command only
Launch_DropsOptions ==
    /\ pc = "loop"
    /\ idx <= Len(commands_to_execute)
    /\ calls' = Append(calls,
                       Call(commands_to_execute[idx], IF idx = 1 THEN kwargs ELSE {},
                            "running", "none", -1))
    /\ pc' = "wait"
    /\ UNCHANGED <<commands, kwargs, commands_to_execute, idx, raised, returned>>

\* a launch that catches the error of a command and goes on with the next
Launch_ContinuesAfterFailure ==
    /\ pc = "loop"
    /\ idx <= Len(commands_to_execute)
    /\ \/ /\ calls' = Append(calls, Call(commands_to_execute[idx], kwargs,
                                         "raised", "FileNotFoundError", -1))
          /\ idx' = idx + 1
          /\ pc' = "loop"
       \/ /\ calls' = Append(calls, Call(commands_to_execute[idx], kwargs,
                                         "running", "none", -1))
          /\ idx' = idx
          /\ pc' = "wait"
    /\ UNCHANGED <<commands, kwargs, commands_to_execute, raised, returned>>

\* subprocess.run(command, **kwargs), up to the start of the child: an empty
\* argument vector raises IndexError (args[0]), a program that cannot be
\* started raises FileNotFoundError, otherwise the child runs and the caller
\* blocks on it
Launch ==
    /\ pc = "loop"
    /\ idx <= Len(commands_to_execute)
    /\ LET command == commands_to_execute[idx] IN
        \/ /\ Len(command) = 0
           /\ calls' = Append(calls, Call(command, kwargs, "raised", "IndexError", -1))
           /\ raised' = "IndexError"
           /\ pc' = "raised"
        \/ /\ Len(command) > 0
           /\ calls' = Append(calls,
                              Call(command, kwargs, "raised", "FileNotFoundError", -1))
           /\ raised' = "FileNotFoundError"
           /\ pc' = "raised"
        \/ /\ Len(command) > 0
           /\ calls' = Append(calls, Call(command, kwargs, "running", "none", -1))
           /\ raised' = raised
           /\ pc' = "wait"
    /\ UNCHANGED <<commands, kwargs, commands_to_execute, idx, returned>>

\* a subprocess.run that raises on every failing status (check defaulting to True)
ChildExit_RaisesOnStatus ==
    /\ pc = "wait"
    /\ \E returncode \in {0, 1} :
        LET fails == returncode # 0 IN
        /\ calls' = [calls EXCEPT ![Len(calls)] =
                        Call(@.args, @.kwargs,
                             IF fails THEN "raised" ELSE "exited",
                             IF fails THEN "CalledProcessError" ELSE "none",
                             returncode)]
        /\ raised' = IF fails THEN "CalledProcessError" ELSE raised
        /\ pc' = IF fails THEN "raised" ELSE "loop"
        /\ idx' = IF fails THEN idx ELSE idx + 1
    /\ UNCHANGED <<commands, kwargs, commands_to_execute, returned>>

\* the child terminates and subprocess.run returns, or raises
\* CalledProcessError when check=True was passed and the status is not 0;
\* the for loop then moves to the next command
ChildExit ==
    /\ pc = "wait"
    /\ \E returncode \in {0, 1} :
        LET fails == <<"check", "True">> \in kwargs /\ returncode # 0 IN
        /\ calls' = [calls EXCEPT ![Len(calls)] =
                        Call(@.args, @.kwargs,
                             IF fails THEN "raised" ELSE "exited",
                             IF fails THEN "CalledProcessError" ELSE "none",
                             returncode)]
        /\ raised' = IF fails THEN "CalledProcessError" ELSE raised
        /\ pc' = IF fails THEN "raised" ELSE "loop"
        /\ idx' = IF fails THEN idx ELSE idx + 1
    /\ UNCHANGED <<commands, kwargs, commands_to_execute, returned>>

\* return ShellUtil
Return ==
    /\ pc = "loop"
    /\ idx > Len(commands_to_execute)
    /\ returned' = "ShellUtil"
    /\ pc' = "done"
    /\ UNCHANGED <<commands, kwargs, commands_to_execute, idx, calls, raised>>

InitCall ==
    /\ pc = "start"
    /\ commands_to_execute = <<>>
    /\ idx = 1
    /\ calls = <<>>
    /\ raised = "none"
    /\ returned = "none"

\* one call of subprocess_run
Init ==
    /\ IsInput(MaxRunItems, MaxRunLen)
    /\ kwargs \in KwargsChoices
    /\ InitCall

Next == Parse \/ Launch \/ ChildExit \/ Return

Spec == Init /\ [][Next]_vars

\* one call of parse_shell_command
InitParse ==
    /\ IsInput(MaxItems, MaxLen)
    /\ kwargs = {}
    /\ InitCall

NextParse == Parse

SpecParse == InitParse /\ [][NextParse]_vars

-----------------------------------------------------------------------------
(* Vocabulary of the properties, defined by positions in the input and *)
(* not by the scanning of the methods above                                *)

\* the k-th smallest element of a set of numbers
NthOf(S, k) == CHOOSE p \in S : Cardinality({q \in S : q < p}) = k - 1

RECURSIVE Flatten(_)
Flatten(ss) == IF ss = <<>> THEN <<>> ELSE Head(ss) \o Flatten(Tail(ss))

\* positions where a whitespace-separated token of s begins
TokenStarts(s) ==
    {i \in 1..Len(s) : s[i] \notin Whitespace /\ (i = 1 \/ s[i - 1] \in Whitespace)}

\* last position of the token of s that begins at p
TokenEnd(s, p) ==
    CHOOSE e \in p..Len(s) :
        /\ \A j \in p..e : s[j] \notin Whitespace
        /\ e = Len(s) \/ s[e + 1] \in Whitespace

\* the whitespace-separated tokens of s, in order
WsTokens(s) ==
    [k \in 1..Cardinality(TokenStarts(s)) |->
        SubSeq(s, NthOf(TokenStarts(s), k), TokenEnd(s, NthOf(TokenStarts(s), k)))]

\* s between its first and its last non-whitespace character
Trimmed(s) ==
    LET nw == {i \in 1..Len(s) : s[i] \notin Whitespace}
    IN  IF nw = {} THEN <<>>
        ELSE SubSeq(s, NthOf(nw, 1), NthOf(nw, Cardinality(nw)))

\* the k-th ';'-segment of t
Segment(t, k) ==
    LET cuts == {i \in 1..Len(t) : t[i] = ";"} \cup {0, Len(t) + 1}
    IN  SubSeq(t, NthOf(cuts, k) + 1, NthOf(cuts, k + 1) - 1)

\* the ';'-segments of s the parser retains (those with a character, once
\* s is stripped), from left to right
RetainedSegments(s) ==
    LET t == Trimmed(s)
        n == Cardinality({i \in 1..Len(t) : t[i] = ";"}) + 1
        kept == {k \in 1..n : Segment(t, k) # <<>>}
    IN  [j \in 1..Cardinality(kept) |-> Segment(t, NthOf(kept, j))]

RECURSIVE JoinWith(_, _)
JoinWith(parts, sep) ==
    IF parts = <<>> THEN <<>>
    ELSE IF Len(parts) = 1 THEN parts[1]
    ELSE parts[1] \o <<sep>> \o JoinWith(Tail(parts), sep)

\* the ';'-join of the space-joined vectors
Rejoin(vectors) ==
    JoinWith([k \in 1..Len(vectors) |-> JoinWith(vectors[k], " ")], ";")

IsSeqInput == commands.type \in {"list", "tuple"}

\* the input is a string or a list/tuple of strings
ValidSpec ==
    \/ commands.type = "str"
    \/ IsSeqInput /\ \A i \in 1..Len(commands.items) : commands.items[i].type = "str"

Parsed == pc # "start" /\ raised \notin {"TypeError", "AttributeError"}

CheckRequested == <<"check", "True">> \in kwargs

LaunchFailures == {"IndexError", "FileNotFoundError", "CalledProcessError"}

-----------------------------------------------------------------------------
(* Properties *)

\* C1: every argument vector parse_shell_command returns has at least one
\* token (a segment that is empty once stripped is dropped), and
\* subprocess_run never hands an empty argument vector to subprocess.run.
C1_NoEmptyVector ==
    /\ \A k \in 1..Len(commands_to_execute) : Len(commands_to_execute[k]) >= 1
    /\ \A k \in 1..Len(calls) : Len(calls[k].args) >= 1

\* C2 as claimed: with empty options, once the first command has exited with
\* a non-zero status no later command is launched and the call ends with a
\* LaunchFailure raised.
C2_FailingStatusStops ==
    (kwargs = {} /\ Len(calls) >= 1 /\ calls[1].returncode > 0) =>
        /\ Len(calls) = 1
        /\ pc \in {"done", "raised"} => pc = "raised" /\ raised \in LaunchFailures

\* C2 as amended: without check=True among the options (so with empty
\* options) a non-zero exit status raises nothing, the loop goes on to the
\* next command and the call returns the handle once every vector was
\* launched; with check=True the status raises CalledProcessError and no
\* later command is launched.
C2_FailingStatusContinues ==
    /\ \A k \in 1..Len(calls) :
        calls[k].returncode > 0 =>
            IF CheckRequested
            THEN /\ k = Len(calls)
                 /\ pc = "raised"
                 /\ raised = "CalledProcessError"
            ELSE /\ calls[k].status = "exited"
                 /\ raised # "CalledProcessError"
                 /\ idx > k
                 /\ k = Len(calls) => pc \in {"loop", "done"} /\ raised = "none"
    /\ (pc = "done" /\ ~CheckRequested) =>
            /\ Len(calls) = Len(commands_to_execute)
            /\ returned = "ShellUtil"

\* C2 witness: with empty options the first command exited with status 1 and
\* the second command was launched after it.
C2_Witness ==
    /\ kwargs = {}
    /\ Len(calls) >= 2
    /\ calls[1].returncode > 0

\* C3: an input that is neither a string nor a list/tuple of strings makes
\* the call fail with TypeError before any child process is launched.
C3_InvalidSpecType ==
    (~ValidSpec /\ pc # "start") =>
        pc = "raised" /\ raised = "TypeError" /\ calls = <<>>

\* C4: a list or tuple of argument vectors is accepted, and each of its
\* vectors is executed as one command, in order.
C4_AcceptsArgumentVectors ==
    ( /\ IsSeqInput
      /\ commands.items # <<>>
      /\ \A i \in 1..Len(commands.items) : commands.items[i].type = "list"
      /\ pc # "start" ) =>
        /\ raised \notin {"TypeError", "AttributeError"}
        /\ Len(commands_to_execute) = Len(commands.items)
        /\ \A k \in 1..Len(calls) : calls[k].args = commands.items[k].argv

\* C5: the vectors are in input order: for a string the k-th vector is the
\* token list of the k-th retained ';'-segment; for a list/tuple of strings
\* the result is the results of the elements, concatenated in element order.
C5_InputOrder ==
    Parsed =>
        /\ commands.type = "str" =>
              /\ Len(commands_to_execute) = Len(RetainedSegments(commands.str))
              /\ \A k \in 1..Len(commands_to_execute) :
                    commands_to_execute[k]
                        = WsTokens(RetainedSegments(commands.str)[k])
        /\ IsSeqInput =>
              commands_to_execute
                  = Flatten([i \in 1..Len(commands.items) |->
                        parse_shell_command(PyStr(commands.items[i].str)).value])

\* C5 witness: a list/tuple whose first element gave two vectors and whose
\* second element gave one more, as ["a;b", "c"] does.
C5_Witness ==
    /\ Parsed
    /\ IsSeqInput
    /\ Len(commands.items) = 2
    /\ Len(parse_shell_command(PyStr(commands.items[1].str)).value) = 2
    /\ Len(commands_to_execute) = 3
    /\ commands_to_execute[1] # commands_to_execute[2]
    /\ commands_to_execute[2] # commands_to_execute[3]

\* C6: the children of one call run one at a time in the order of the parsed
\* vectors: a command is launched only when every earlier one has
\* terminated, at most one child is running, and a call that returns has
\* launched each vector exactly once.
C6_OneAtATime ==
    /\ Cardinality({k \in 1..Len(calls) : calls[k].status = "running"}) <= 1
    /\ \A k \in 1..Len(calls) :
        /\ k <= Len(commands_to_execute)
        /\ calls[k].args = commands_to_execute[k]
        /\ k < Len(calls) => calls[k].status = "exited"
    /\ pc = "done" =>
        /\ Len(calls) = Len(commands_to_execute)
        /\ \A k \in 1..Len(calls) : calls[k].status = "exited"

\* C6 witness: a call that returned after running two or more commands.
C6_Witness == pc = "done" /\ Len(calls) >= 2

\* C7: re-parsing rejoined substrings gives the same vectors:
\* parse(s1 + ";" + s2) = parse(s1) + parse(s2) = parse([s1, s2]), and
\* re-parsing the ';'-join of the space-joined vectors of parse(s) gives
\* parse(s) again.
C7_RejoinReparse ==
    Parsed =>
        /\ commands.type = "str" =>
              parse_shell_command(PyStr(Rejoin(commands_to_execute))).value
                  = commands_to_execute
        /\ (IsSeqInput /\ Len(commands.items) = 2) =>
              LET s1 == commands.items[1].str
                  s2 == commands.items[2].str
                  joined == parse_shell_command(PyStr(s1 \o <<";">> \o s2)).value
              IN  /\ joined = commands_to_execute
                  /\ joined = parse_shell_command(PyStr(s1)).value
                                \o parse_shell_command(PyStr(s2)).value

\* C8: a string without ';' gives exactly one vector, its whitespace-separated
\* tokens in order, when it has a non-whitespace character, and no vector
\* when it is empty or whitespace only.
C8_SingleCommand ==
    ( /\ pc # "start"
      /\ commands.type = "str"
      /\ \A i \in 1..Len(commands.str) : commands.str[i] # ";" ) =>
        /\ raised = "none"
        /\ IF \E i \in 1..Len(commands.str) : commands.str[i] \notin Whitespace
           THEN /\ Len(commands_to_execute) = 1
                /\ commands_to_execute[1] = WsTokens(commands.str)
           ELSE commands_to_execute = <<>>

\* C8 witness: a string without ';' whose two tokens are separated by a run
\* of two spaces was parsed into one vector of two tokens.
C8_Witness ==
    /\ pc # "start"
    /\ commands.type = "str"
    /\ \E i \in 1..(Len(commands.str) - 1) :
          commands.str[i] = " " /\ commands.str[i + 1] = " "
    /\ Len(commands_to_execute) = 1
    /\ Len(commands_to_execute[1]) = 2

\* C9: every subprocess.run of the call receives the caller's options exactly
\* as passed, and the options of the call never change.
C9_OptionsForwarded ==
    \A k \in 1..Len(calls) : calls[k].kwargs = kwargs

\* C9 witness: two commands were launched by a call that passed options.
C9_Witness == kwargs # {} /\ Len(calls) >= 2

\* C10: when subprocess.run raises on the i-th vector, that error reaches the
\* caller as it is, the vectors before i were each launched once and ran to
\* their end, no vector after i is launched, and the call returns no handle.
C10_FailureStops ==
    \A i \in 1..Len(calls) :
        calls[i].status = "raised" =>
            /\ pc = "raised"
            /\ raised = calls[i].error
            /\ raised \in LaunchFailures
            /\ i = Len(calls)
            /\ i = idx
            /\ \A k \in 1..(i - 1) :
                  /\ calls[k].args = commands_to_execute[k]
                  /\ calls[k].status = "exited"
            /\ returned = "none"
            /\ ~ENABLED Launch

\* C10 witness: the second command of a three-command call raised.
C10_Witness ==
    /\ pc = "raised"
    /\ Len(calls) = 2
    /\ calls[2].status = "raised"
    /\ Len(commands_to_execute) >= 3

====
